---- MODULE Spec2Model ----
(***************************************************************************)
(* Model of journal.py: the journal file, the in-memory entry list and the *)
(* menu loop with its add / view / search / delete / quit operations.      *)
(* Strings are sequences of one-character strings, so that the JSON string *)
(* escaping done by save_entries and undone by load_entries is computed.   *)
(***************************************************************************)
EXTENDS Integers, Sequences, FiniteSets, TLC

\* ------------------------------------------------------------------ bounds
MaxEntries == 3
MaxClock == 1

VARIABLES
    file,      \* content of journal.json (JOURNAL_FILE)
    entries,   \* the list `entries` of menu_loop
    pc,        \* position of the process: start, menu, finally, exited
               \* (crashed: an exception left menu_loop)
    clock,     \* datetime.now(), as a tick count
    outcome,   \* the message the last operation printed
    shown,     \* the entries the last operation displayed, in display order
    removed,   \* the entry reported by "Deleted entry from ...": <<>> or <<e>>
    warned,    \* load_entries printed its warning
    last,      \* the last menu operation and its validated input
    loopEnd,   \* how the while loop ended: none, quit, interrupt, error
    final      \* the save of the finally block: attempts, success, argument

vars == <<file, entries, pc, clock, outcome, shown, removed, warned, last, loopEnd, final>>

\* ------------------------------------------------------------- Entry, strings
FieldNames == {"date", "mood", "goal", "text", "created_at"}

Whitespace == {" ", "\n", "\t"}

RECURSIVE LStrip(_)
LStrip(s) ==
    IF s = <<>> THEN <<>>
    ELSE IF Head(s) \in Whitespace THEN LStrip(Tail(s)) ELSE s

RECURSIVE RStrip(_)
RStrip(s) ==
    IF s = <<>> THEN <<>>
    ELSE IF s[Len(s)] \in Whitespace THEN RStrip(SubSeq(s, 1, Len(s) - 1)) ELSE s

\* str.strip()
Strip(s) == LStrip(RStrip(s))

\* "\n".join(lines)
RECURSIVE Join(_)
Join(lines) ==
    IF lines = <<>> THEN <<>>
    ELSE IF Len(lines) = 1 THEN lines[1]
    ELSE lines[1] \o <<"\n">> \o Join(Tail(lines))

Unspecified == <<"unspecified">>
NoGoal == <<"No specific goal">>

\* ------------------------------------------------------------- dates
DayDigits == {"1", "2"}
Today == <<"0", "3">>

\* datetime.strptime(s, "%Y-%m-%d") accepts a padded or an unpadded number
ParsesAsDate(s) ==
    \/ Len(s) = 1 /\ s[1] \in DayDigits
    \/ Len(s) = 2 /\ s[1] = "0" /\ s[2] \in DayDigits

\* dt.isoformat(): always zero padded
IsoFormat(s) == IF Len(s) = 1 THEN <<"0", s[1]>> ELSE s

\* one pass of the loop of input_date: ok = FALSE is the re-prompt
input_date(raw) ==
    LET s == Strip(raw) IN
    IF s = <<>> THEN [ok |-> TRUE, date |-> Today]
    ELSE IF ParsesAsDate(s) THEN [ok |-> TRUE, date |-> IsoFormat(s)]
    ELSE [ok |-> FALSE, date |-> <<>>]

RawDates == { <<" ">>, <<"1">>, <<"0", "2">>, <<"x">> }

\* input_multiline: the lines typed before END, joined and stripped
input_multiline(lines) == Strip(Join(lines))

\* ------------------------------------------------------------- storage codec
\* fault variant of EscapeChar: the backslash is written as it is
EscapeChar_NoBackslash(c) ==
    IF c = "\"" THEN <<"\\", "\"">>
    ELSE IF c = "\n" THEN <<"\\", "n">>
    ELSE IF c = "\t" THEN <<"\\", "t">>
    ELSE <<c>>

\* json.dumps of a string: quote, backslash and control characters are escaped
EscapeChar(c) ==
    IF c = "\"" THEN <<"\\", "\"">>
    ELSE IF c = "\\" THEN <<"\\", "\\">>
    ELSE IF c = "\n" THEN <<"\\", "n">>
    ELSE IF c = "\t" THEN <<"\\", "t">>
    ELSE <<c>>

RECURSIVE EscapeStr(_)
EscapeStr(s) ==
    IF s = <<>> THEN <<>> ELSE EscapeChar(Head(s)) \o EscapeStr(Tail(s))

\* json.loads of a string body
UnescapeChar(c) ==
    IF c = "n" THEN "\n" ELSE IF c = "t" THEN "\t" ELSE c

RECURSIVE UnescapeStr(_)
UnescapeStr(s) ==
    IF s = <<>> THEN <<>>
    ELSE IF Head(s) = "\\" /\ Len(s) >= 2
         THEN <<UnescapeChar(s[2])>> \o UnescapeStr(SubSeq(s, 3, Len(s)))
         ELSE <<Head(s)>> \o UnescapeStr(Tail(s))

\* asdict(e) written by json.dumps: an object with the five keys
ToItem(e) ==
    [t |-> "obj", keys |-> FieldNames,
     date |-> EscapeStr(e.date), mood |-> EscapeStr(e.mood),
     goal |-> EscapeStr(e.goal), text |-> EscapeStr(e.text),
     created_at |-> EscapeStr(e.created_at)]

\* Entry(**item) on a parsed object
FromItem(it) ==
    [date |-> UnescapeStr(it.date), mood |-> UnescapeStr(it.mood),
     goal |-> UnescapeStr(it.goal), text |-> UnescapeStr(it.text),
     created_at |-> UnescapeStr(it.created_at)]

\* json.dumps(data): the text of an array of objects
Encode(es) == [kind |-> "arr", items |-> [i \in 1..Len(es) |-> ToItem(es[i])]]

\* file contents: no file, text json.loads rejects, or a JSON value
Missing == [kind |-> "missing", items |-> <<>>]
Garbage == [kind |-> "garbage", items |-> <<>>]

\* `for item in data`: lists, strings (characters) and objects (keys) iterate
Iterable(f) == f.kind \in {"arr", "str", "obj"}

\* Entry(**item): item must be a mapping with exactly the five field names
Constructible(it) == it.t = "obj" /\ it.keys = FieldNames

LoadSucceeds(f) ==
    /\ f.kind # "garbage"
    /\ Iterable(f)
    /\ \A i \in 1..Len(f.items) : Constructible(f.items[i])

load_entries(f) ==
    IF f.kind = "missing" THEN <<>>
    ELSE IF LoadSucceeds(f) THEN [i \in 1..Len(f.items) |-> FromItem(f.items[i])]
    ELSE <<>>

\* the except branch of load_entries: the warning is printed
LoadWarns(f) == f.kind # "missing" /\ ~LoadSucceeds(f)

\* save_entries: write_text truncates and rewrites; a failure leaves the old
\* content (open failed) or a truncated text that json.loads rejects
save_entries(cur, es) ==
    { [ok |-> TRUE, file |-> Encode(es)],
      [ok |-> FALSE, file |-> cur],
      [ok |-> FALSE, file |-> Garbage] }

\* ------------------------------------------------------------- initial files
NoFields == [date |-> <<>>, mood |-> <<>>, goal |-> <<>>, text |-> <<>>, created_at |-> <<>>]

\* a JSON element that is a string (also: a character or a key met when
\* iterating a top-level string or object), a number, or an object with `keys`
StrItem == [t |-> "str", keys |-> {}] @@ NoFields
NumItem == [t |-> "num", keys |-> {}] @@ NoFields
ObjItem(keys) == [t |-> "obj", keys |-> keys] @@ NoFields

OldEntry == [date |-> <<"0", "1">>, mood |-> <<"o", "k">>, goal |-> NoGoal,
             text |-> <<"a", "\\", "n", "\"">>, created_at |-> <<"T", "0">>]

InitialFiles ==
    { Missing, Garbage,
      [kind |-> "null", items |-> <<>>],
      [kind |-> "num", items |-> <<>>],
      [kind |-> "str", items |-> <<>>],
      [kind |-> "str", items |-> <<StrItem, StrItem>>],
      [kind |-> "obj", items |-> <<>>],
      [kind |-> "obj", items |-> <<StrItem>>],
      [kind |-> "arr", items |-> <<NumItem>>],
      [kind |-> "arr", items |-> <<StrItem>>],
      [kind |-> "arr", items |-> <<ObjItem({})>>],
      [kind |-> "arr", items |-> <<ObjItem(FieldNames \ {"text"})>>],
      [kind |-> "arr", items |-> <<ObjItem(FieldNames \cup {"id"})>>],
      [kind |-> "arr", items |-> <<ToItem(OldEntry), NumItem>>],
      Encode(<<>>),
      Encode(<<OldEntry>>),
      Encode(<<OldEntry, OldEntry>>) }

\* ------------------------------------------------------------- inputs
\* what the user types at the prompts of add_entry
AddInputs ==
    { [date |-> <<>>, mood |-> <<>>, goal |-> <<" ">>, lines |-> << <<" ">>, <<>> >>],
      [date |-> <<"1">>, mood |-> <<" ", "h">>, goal |-> <<"g">>,
       lines |-> << <<"a", "\"">>, <<"\\", "n">> >>] }

\* what the user types at the prompt of delete_entry: int() fails or gives idx
DeleteInputs(n) ==
    { [num |-> FALSE, idx |-> 0] } \cup { [num |-> TRUE, idx |-> i] : i \in -1..(n + 1) }

\* datetime.now().isoformat() at tick t
Timestamp(t) == <<"T", ToString(t)>>

NoOp == [op |-> "none", num |-> FALSE, idx |-> 0, date |-> <<>>]
NoFinal == [attempts |-> 0, ok |-> FALSE, arg |-> <<>>]

\* ------------------------------------------------------------- state machine
Init ==
    /\ file \in InitialFiles
    /\ entries = <<>>
    /\ pc = "start"
    /\ clock = 0
    /\ outcome = "none"
    /\ shown = <<>>
    /\ removed = <<>>
    /\ warned = FALSE
    /\ last = NoOp
    /\ loopEnd = "none"
    /\ final = NoFinal

\* menu_loop, line 141: entries = load_entries()
Load ==
    /\ pc = "start"
    /\ entries' = load_entries(file)
    /\ warned' = LoadWarns(file)
    /\ pc' = "menu"
    /\ UNCHANGED <<file, clock, outcome, shown, removed, last, loopEnd, final>>

\* the Entry built by add_entry from the typed values at tick t
NewEntry(inp, t) ==
    LET mood == Strip(inp.mood)
        goal == Strip(inp.goal)
    IN [date |-> input_date(inp.date).date,
        mood |-> IF mood = <<>> THEN Unspecified ELSE mood,
        goal |-> IF goal = <<>> THEN NoGoal ELSE goal,
        text |-> input_multiline(inp.lines),
        created_at |-> Timestamp(t)]

\* fault variant of AppendEntry: entries.insert(0, entry)
AppendEntry_Prepend(es, e) == <<e>> \o es

\* entries.append(entry)
AppendEntry(es, e) == Append(es, e)

\* fault variant of add_entry: the call of save_entries is missing
add_entry_NoSave(inp, t, r) ==
    /\ pc = "menu"
    /\ Len(entries) < MaxEntries
    /\ input_date(inp.date).ok
    /\ entries' = AppendEntry(entries, NewEntry(inp, t))
    /\ clock' = t
    /\ file' = file
    /\ outcome' = "saved"
    /\ pc' = "menu"
    /\ shown' = <<>>
    /\ removed' = <<>>
    /\ last' = [op |-> "add", num |-> FALSE, idx |-> 0, date |-> <<>>]
    /\ UNCHANGED <<warned, final, loopEnd>>

\* choice "1": append, then save; a failed save raises out of the loop
add_entry(inp, t, r) ==
    /\ pc = "menu"
    /\ Len(entries) < MaxEntries
    /\ input_date(inp.date).ok
    /\ entries' = AppendEntry(entries, NewEntry(inp, t))
    /\ clock' = t
    /\ file' = r.file
    /\ outcome' = IF r.ok THEN "saved" ELSE "unexpected_error"
    /\ pc' = IF r.ok THEN "menu" ELSE "finally"
    /\ loopEnd' = IF r.ok THEN loopEnd ELSE "error"
    /\ shown' = <<>>
    /\ removed' = <<>>
    /\ last' = [op |-> "add", num |-> FALSE, idx |-> 0, date |-> <<>>]
    /\ UNCHANGED <<warned, final>>

AddEntry ==
    \E inp \in AddInputs, t \in clock..MaxClock :
        \E r \in save_entries(file, AppendEntry(entries, NewEntry(inp, t))) :
            add_entry(inp, t, r)

\* choice "2": every entry with its 1-based number, or the empty message
view_entries ==
    /\ pc = "menu"
    /\ shown' = entries
    /\ outcome' = IF entries = <<>> THEN "no_entries" ELSE "listed"
    /\ removed' = <<>>
    /\ last' = [op |-> "view", num |-> FALSE, idx |-> 0, date |-> <<>>]
    /\ UNCHANGED <<file, entries, pc, clock, warned, loopEnd, final>>

\* fault variant of Found: stops at the first match
RECURSIVE Found_FirstOnly(_, _)
Found_FirstOnly(es, date) ==
    IF es = <<>> THEN <<>>
    ELSE IF Head(es).date = date THEN <<Head(es)>>
    ELSE Found_FirstOnly(Tail(es), date)

\* [e for e in entries if e.date == date]
RECURSIVE Found(_, _)
Found(es, date) ==
    IF es = <<>> THEN <<>>
    ELSE IF Head(es).date = date THEN <<Head(es)>> \o Found(Tail(es), date)
    ELSE Found(Tail(es), date)

\* choice "3"
search_by_date(raw) ==
    /\ pc = "menu"
    /\ input_date(raw).ok
    /\ LET date == input_date(raw).date
           found == Found(entries, date)
       IN /\ shown' = found
          /\ outcome' = IF found = <<>> THEN "not_found" ELSE "found"
          /\ last' = [op |-> "search", num |-> FALSE, idx |-> 0, date |-> date]
    /\ removed' = <<>>
    /\ UNCHANGED <<file, entries, pc, clock, warned, loopEnd, final>>

SearchByDate == \E raw \in RawDates : search_by_date(raw)

\* fault variant of Pop: entries.pop(idx)
Pop_ZeroBased(es, idx) == SubSeq(es, 1, idx) \o SubSeq(es, idx + 2, Len(es))

\* entries.pop(idx - 1)
Pop(es, idx) == SubSeq(es, 1, idx - 1) \o SubSeq(es, idx + 1, Len(es))

\* fault variant of DeleteBranch: the test `idx == 0` is missing
DeleteBranch_NoCancel(inp, n) ==
    IF ~inp.num THEN "cancelled_invalid_number"
    ELSE IF 1 <= inp.idx /\ inp.idx <= n THEN "pop"
    ELSE "invalid_entry_number"

\* the branch delete_entry takes on the typed value, for n entries
DeleteBranch(inp, n) ==
    IF ~inp.num THEN "cancelled_invalid_number"
    ELSE IF inp.idx = 0 THEN "delete_cancelled"
    ELSE IF 1 <= inp.idx /\ inp.idx <= n THEN "pop"
    ELSE "invalid_entry_number"

\* fault variant of delete_entry: the exception of a failed save is caught
\* inside the loop, which goes on
delete_entry_Continues(inp, r) ==
    /\ pc = "menu"
    /\ shown' = entries
    /\ IF entries = <<>> THEN
          /\ outcome' = "no_entries"
          /\ last' = [op |-> "delete_empty", num |-> FALSE, idx |-> 0, date |-> <<>>]
          /\ removed' = <<>>
          /\ UNCHANGED <<file, entries, pc, loopEnd>>
       ELSE
          /\ last' = [op |-> "delete", num |-> inp.num, idx |-> inp.idx, date |-> <<>>]
          /\ IF DeleteBranch(inp, Len(entries)) = "pop" THEN
                /\ entries' = Pop(entries, inp.idx)
                /\ file' = r.file
                /\ outcome' = IF r.ok THEN "deleted" ELSE "unexpected_error"
                /\ removed' = IF r.ok THEN <<entries[inp.idx]>> ELSE <<>>
                /\ UNCHANGED <<pc, loopEnd>>
             ELSE
                /\ outcome' = DeleteBranch(inp, Len(entries))
                /\ removed' = <<>>
                /\ UNCHANGED <<file, entries, pc, loopEnd>>
    /\ UNCHANGED <<clock, warned, final>>

\* choice "4": view, then ask for a number; a failed save raises out of the loop
delete_entry(inp, r) ==
    /\ pc = "menu"
    /\ shown' = entries
    /\ IF entries = <<>> THEN
          /\ outcome' = "no_entries"
          /\ last' = [op |-> "delete_empty", num |-> FALSE, idx |-> 0, date |-> <<>>]
          /\ removed' = <<>>
          /\ UNCHANGED <<file, entries, pc, loopEnd>>
       ELSE
          /\ last' = [op |-> "delete", num |-> inp.num, idx |-> inp.idx, date |-> <<>>]
          /\ IF DeleteBranch(inp, Len(entries)) = "pop" THEN
                /\ entries' = Pop(entries, inp.idx)
                /\ file' = r.file
                /\ outcome' = IF r.ok THEN "deleted" ELSE "unexpected_error"
                /\ removed' = IF r.ok THEN <<entries[inp.idx]>> ELSE <<>>
                /\ pc' = IF r.ok THEN "menu" ELSE "finally"
                /\ loopEnd' = IF r.ok THEN loopEnd ELSE "error"
             ELSE
                /\ outcome' = DeleteBranch(inp, Len(entries))
                /\ removed' = <<>>
                /\ UNCHANGED <<file, entries, pc, loopEnd>>
    /\ UNCHANGED <<clock, warned, final>>

\* the save of delete_entry happens only on the branch that pops
DeleteSaves(inp) ==
    IF DeleteBranch(inp, Len(entries)) = "pop"
    THEN save_entries(file, Pop(entries, inp.idx))
    ELSE { [ok |-> TRUE, file |-> file] }

DeleteEntry ==
    \E inp \in DeleteInputs(Len(entries)) :
        \E r \in DeleteSaves(inp) : delete_entry(inp, r)

\* choice "5"
Quit ==
    /\ pc = "menu"
    /\ outcome' = "goodbye"
    /\ pc' = "finally"
    /\ loopEnd' = "quit"
    /\ shown' = <<>>
    /\ removed' = <<>>
    /\ last' = [op |-> "quit", num |-> FALSE, idx |-> 0, date |-> <<>>]
    /\ UNCHANGED <<file, entries, clock, warned, final>>

\* any other choice
InvalidChoice ==
    /\ pc = "menu"
    /\ outcome' = "choose_1_to_5"
    /\ shown' = <<>>
    /\ removed' = <<>>
    /\ last' = [op |-> "invalid_choice", num |-> FALSE, idx |-> 0, date |-> <<>>]
    /\ UNCHANGED <<file, entries, pc, clock, warned, loopEnd, final>>

\* KeyboardInterrupt while input() waits
Interrupt ==
    /\ pc = "menu"
    /\ outcome' = "interrupted"
    /\ pc' = "finally"
    /\ loopEnd' = "interrupt"
    /\ shown' = <<>>
    /\ removed' = <<>>
    /\ last' = [op |-> "interrupt", num |-> FALSE, idx |-> 0, date |-> <<>>]
    /\ UNCHANGED <<file, entries, clock, warned, final>>

\* write_text cut short by KeyboardInterrupt: nothing written yet, or a
\* truncated text
InterruptedSave(cur) == { cur, Garbage }

\* KeyboardInterrupt inside add_entry after the append, before save returns
InterruptInAdd ==
    /\ pc = "menu"
    /\ Len(entries) < MaxEntries
    /\ \E inp \in AddInputs, t \in clock..MaxClock :
          /\ input_date(inp.date).ok
          /\ entries' = AppendEntry(entries, NewEntry(inp, t))
          /\ clock' = t
    /\ file' \in InterruptedSave(file)
    /\ outcome' = "interrupted"
    /\ pc' = "finally"
    /\ loopEnd' = "interrupt"
    /\ shown' = <<>>
    /\ removed' = <<>>
    /\ last' = [op |-> "interrupt", num |-> FALSE, idx |-> 0, date |-> <<>>]
    /\ UNCHANGED <<warned, final>>

\* KeyboardInterrupt inside delete_entry after the pop, before save returns
InterruptInDelete ==
    /\ pc = "menu"
    /\ \E idx \in 1..Len(entries) : entries' = Pop(entries, idx)
    /\ file' \in InterruptedSave(file)
    /\ outcome' = "interrupted"
    /\ pc' = "finally"
    /\ loopEnd' = "interrupt"
    /\ shown' = entries
    /\ removed' = <<>>
    /\ last' = [op |-> "interrupt", num |-> FALSE, idx |-> 0, date |-> <<>>]
    /\ UNCHANGED <<clock, warned, final>>

\* input() raises EOFError: except Exception
InputFails ==
    /\ pc = "menu"
    /\ outcome' = "unexpected_error"
    /\ pc' = "finally"
    /\ loopEnd' = "error"
    /\ shown' = <<>>
    /\ removed' = <<>>
    /\ last' = [op |-> "input_error", num |-> FALSE, idx |-> 0, date |-> <<>>]
    /\ UNCHANGED <<file, entries, clock, warned, final>>

\* fault variant of final_save: no try/except around the save
final_save_Propagates(r) ==
    /\ pc = "finally"
    /\ file' = r.file
    /\ final' = [attempts |-> final.attempts + 1, ok |-> r.ok, arg |-> entries]
    /\ pc' = IF r.ok THEN "exited" ELSE "crashed"
    /\ UNCHANGED <<entries, clock, outcome, shown, removed, warned, last, loopEnd>>

\* fault variant of final_save: the save sits after the loop, not in finally
final_save_OnlyOnQuit(r) ==
    /\ pc = "finally"
    /\ file' = IF loopEnd = "quit" THEN r.file ELSE file
    /\ final' = [attempts |-> final.attempts + 1, ok |-> r.ok, arg |-> entries]
    /\ pc' = "exited"
    /\ UNCHANGED <<entries, clock, outcome, shown, removed, warned, last, loopEnd>>

\* the finally block: save_entries(entries) with `except Exception: pass`
final_save(r) ==
    /\ pc = "finally"
    /\ file' = r.file
    /\ final' = [attempts |-> final.attempts + 1, ok |-> r.ok, arg |-> entries]
    /\ pc' = "exited"
    /\ UNCHANGED <<entries, clock, outcome, shown, removed, warned, last, loopEnd>>

FinalSave == \E r \in save_entries(file, entries) : final_save(r)

Next ==
    \/ Load
    \/ AddEntry
    \/ view_entries
    \/ SearchByDate
    \/ DeleteEntry
    \/ Quit
    \/ InvalidChoice
    \/ Interrupt
    \/ InterruptInAdd
    \/ InterruptInDelete
    \/ InputFails
    \/ FinalSave

Spec == Init /\ [][Next]_vars

\* ------------------------------------------------------------- properties
\* a step of the menu loop that ran add_entry / delete_entry up to its save
AddStep == pc = "menu" /\ last'.op = "add"
DeleteStep == pc = "menu" /\ last'.op = "delete"
SaveFailedStep == (AddStep \/ DeleteStep) /\ outcome' = "unexpected_error"

\* C1: right after an add or a delete whose save succeeded, the file decodes,
\* without warning, to exactly the in-memory sequence; after an add its last
\* element is the entry just added.
C1_FileMatchesAfterMutation ==
    (last.op \in {"add", "delete"} /\ outcome \in {"saved", "deleted"}) =>
        /\ ~LoadWarns(file)
        /\ load_entries(file) = entries
        /\ outcome = "saved" =>
              /\ load_entries(file) # <<>>
              /\ load_entries(file)[Len(load_entries(file))].created_at = Timestamp(clock)

C1_Witness ==
    /\ last.op = "add" /\ outcome = "saved" /\ warned
    /\ Len(entries) = 2
    /\ load_entries(file) = entries

\* C2 (as stated): a save that fails inside add or delete ends only that menu
\* iteration, and the menu is presented again.
C2_LoopContinuesAfterSaveError ==
    [][SaveFailedStep => pc' = "menu"]_vars

\* C2 (amended): a save that fails inside add or delete is reported and ends
\* the menu loop: control goes to the final save, and the menu is never
\* presented again.
C2_SaveErrorEndsLoop ==
    /\ [][SaveFailedStep => (pc' = "finally" /\ loopEnd' = "error")]_vars
    /\ [][(pc = "finally" \/ pc = "exited") => pc' # "menu"]_vars

C2_Witness ==
    /\ pc = "exited" /\ loopEnd = "error"
    /\ last.op = "delete" /\ outcome = "unexpected_error"

\* C3: however the loop ends (quit, interruption, failure), exactly one final
\* save of the then-current entries is attempted, the process then exits, and
\* a failure of that save does not propagate or block the exit.
C3_ExactlyOneFinalSave ==
    /\ [](/\ pc \in {"start", "menu", "finally", "exited"}
          /\ pc # "exited" => final.attempts = 0
          /\ pc = "exited" => (final.attempts = 1 /\ final.arg = entries)
          /\ pc = "finally" => (loopEnd \in {"quit", "interrupt", "error"} /\ ENABLED FinalSave))
    /\ [][(pc = "menu" /\ pc' # "menu") => pc' = "finally"]_vars
    /\ [][pc = "finally" => (pc' = "exited" /\ entries' = entries)]_vars

C3_Witness ==
    /\ pc = "exited" /\ loopEnd = "interrupt"
    /\ final.attempts = 1 /\ ~final.ok /\ final.arg = entries /\ entries # <<>>

\* C4: in delete, position 0 cancels (entries and file unchanged, its own
\* outcome), a position below 0 or above the length is reported invalid with
\* entries and file unchanged and no save; the loop continues in both cases.
C4_DeleteCancelAndBounds ==
    [][(DeleteStep /\ last'.num) =>
         /\ last'.idx = 0 =>
               /\ outcome' = "delete_cancelled"
               /\ entries' = entries /\ file' = file /\ pc' = "menu"
         /\ (last'.idx < 0 \/ last'.idx > Len(entries)) =>
               /\ outcome' = "invalid_entry_number"
               /\ entries' = entries /\ file' = file /\ pc' = "menu"]_vars

C4_Witness ==
    /\ last.op = "delete" /\ last.num /\ last.idx = Len(entries) + 1
    /\ outcome = "invalid_entry_number" /\ Len(entries) = 2 /\ pc = "menu"

\* the entries of a delete at position p moved as the claim C5 says
ShiftedBy(before, after, p) ==
    /\ Len(after) = Len(before) - 1
    /\ \A q \in 1..(p - 1) : after[q] = before[q]
    /\ \A q \in (p + 1)..Len(before) : after[q - 1] = before[q]

InRangeDeleteStep == DeleteStep /\ last'.num /\ 1 <= last'.idx /\ last'.idx <= Len(entries)

\* C5 (as stated): a delete at a position p in 1..n removes the entry at p,
\* reports that entry, and shifts the later entries down by one.
C5_DeleteRemovesAndReports ==
    [][InRangeDeleteStep =>
         /\ ShiftedBy(entries, entries', last'.idx)
         /\ removed' = <<entries[last'.idx]>>]_vars

\* C5 (amended): a delete at a position p in 1..n removes the entry at p and
\* shifts the later entries down by one, fields unchanged; it reports the
\* removed entry when its save succeeds, and reports nothing when it fails.
C5_DeleteRemovesAndReportsIfSaved ==
    [][InRangeDeleteStep =>
         /\ ShiftedBy(entries, entries', last'.idx)
         /\ outcome' \in {"deleted", "unexpected_error"}
         /\ outcome' = "deleted" => removed' = <<entries[last'.idx]>>
         /\ outcome' = "unexpected_error" => removed' = <<>>]_vars

C5_Witness ==
    /\ last.op = "delete" /\ last.idx = 2 /\ outcome = "deleted"
    /\ Len(entries) = 2 /\ Len(removed) = 1
    /\ removed[1] # entries[1] /\ removed[1] # entries[2] /\ entries[1] # entries[2]

\* C6: every add makes the list one longer, puts the new entry last and
\* leaves the existing entries in place; viewing lists the entries in that
\* order.
C6_AddAppends ==
    /\ [][AddStep =>
            /\ Len(entries') = Len(entries) + 1
            /\ SubSeq(entries', 1, Len(entries)) = entries
            /\ \E inp \in AddInputs : entries'[Len(entries')] = NewEntry(inp, clock')]_vars
    /\ [](last.op = "view" => shown = entries)

C6_Witness ==
    /\ last.op = "view" /\ ~warned /\ Len(shown) = 3
    /\ shown[1] = OldEntry
    /\ shown[2].created_at = Timestamp(0) /\ shown[3].created_at = Timestamp(1)

\* the claim's "invalid structure": unparseable text, a value that is not an
\* array, or an array with an element that is not a five-field object
InvalidStructure(f) ==
    /\ f.kind # "missing"
    /\ \/ f.kind # "arr"
       \/ \E i \in 1..Len(f.items) : f.items[i].t # "obj" \/ f.items[i].keys # FieldNames

\* C7: loading an existing file of invalid structure yields the empty
\* sequence and a warning.
C7_InvalidStructureWarns ==
    [][(pc = "start" /\ pc' = "menu" /\ InvalidStructure(file)) =>
         (entries' = <<>> /\ warned')]_vars

\* the positions of es whose date is d, and the k-th of them
Matching(es, d) == { i \in 1..Len(es) : es[i].date = d }
KthMatch(es, d, k) ==
    CHOOSE i \in Matching(es, d) : Cardinality({ j \in Matching(es, d) : j <= i }) = k

\* C8: search shows exactly the entries whose date is the searched date, in
\* their order in the list, and changes neither the list nor the file.
C8_SearchIsDateFilter ==
    [][(pc = "menu" /\ last'.op = "search") =>
         /\ entries' = entries /\ file' = file
         /\ Len(shown') = Cardinality(Matching(entries, last'.date))
         /\ \A k \in 1..Len(shown') : shown'[k] = entries[KthMatch(entries, last'.date, k)]
         /\ (outcome' = "not_found") = (shown' = <<>>)]_vars

C8_Witness ==
    /\ last.op = "search" /\ Len(entries) = 3
    /\ shown = <<entries[1], entries[3]>>
    /\ entries[1] # entries[3] /\ entries[2].date # last.date

\* C9: a successful save of any entry sequence followed by a load gives the
\* sequence back: same length, order and field values.
C9_RoundTrip ==
    \A r \in save_entries(file, entries) :
        r.ok => (load_entries(r.file) = entries /\ ~LoadWarns(r.file))

C9_Witness ==
    /\ Len(entries) = 3 /\ entries[1] = entries[2]
    /\ \E i \in 1..Len(entries[3].text) : entries[3].text[i] = "\\"
    /\ \E i \in 1..Len(entries[3].text) : entries[3].text[i] = "\n"

\* C10: when the final save succeeds the file holds the entries the loop
\* ended with; a mutation whose own save failed stays in memory and is
\* written then, and so is the empty list load fell back to.
C10_FinalFlushWritesMemory ==
    /\ []((pc = "exited" /\ final.ok) =>
            (file = Encode(entries) /\ load_entries(file) = entries /\ ~LoadWarns(file)))
    /\ [][(AddStep /\ outcome' = "unexpected_error") => Len(entries') = Len(entries) + 1]_vars
    /\ [][(DeleteStep /\ outcome' = "unexpected_error") => Len(entries') = Len(entries) - 1]_vars
    /\ [][pc = "finally" => entries' = entries]_vars

C10_Witness ==
    /\ pc = "exited" /\ final.ok /\ warned
    /\ loopEnd = "error" /\ last.op = "add"
    /\ Len(entries) = 1 /\ load_entries(file) = entries

====
